---- MODULE Spec2Model ----
(***************************************************************************)
(* Fury (Rust): the String and HashMap instances of the Serializer         *)
(* capability over a byte cursor, and the UTF-16 -> UTF-8 transcoder.      *)
(*                                                                         *)
(* Bytes are 0..255, a buffer is a sequence of bytes, a cursor is the      *)
(* number of bytes already consumed.  A Rust String is its UTF-8 bytes.    *)
(* A HashMap is a function from keys to values.                            *)
(***************************************************************************)
EXTENDS Integers, Sequences, FiniteSets, TLC

VARIABLES
    mode,       \* Mode held by the WriteContext / ReadContext of this run
    bf,         \* the byte buffer: written by the writer, then read by the reader
    cursor,     \* the reader's cursor into bf
    pc,         \* "writing" | "reading" | "failed"
    written,    \* the values written so far, in order
    origin,     \* "local" | "truncated" | "corrupted" | "foreign": where bf comes from
    stream,     \* what a foreign writer declared and sent (ty "none": nothing)
    results,    \* the result of every read so far, in order
    native,     \* IS_LITTLE_ENDIAN_LOCAL of the build
    units,      \* transcoder input: UTF-16 code units
    flag,       \* transcoder input: is_little_endian
    out,        \* transcoder result for (units, flag)
    outSwapped, \* transcoder result for (byte-swapped units, ~flag)
    outSimd     \* result of the one SIMD variant run on (units, flag)

vars == <<mode, bf, cursor, pc, written, origin, stream, results,
          native, units, flag, out, outSwapped, outSimd>>

-----------------------------------------------------------------------------
(* Bounds of the model.                                                    *)

MaxVals == 2        \* values written into one buffer
MaxPairs == 2       \* (key, value) pairs a foreign writer puts into one map stream
MaxCount == 3       \* largest entry count / length a foreign writer declares
MaxUnits == 3       \* UTF-16 units handed to the transcoder
MaxMid == 2         \* units of any kind between the runs of a SIMD input

-----------------------------------------------------------------------------
(* Arithmetic helpers.                                                     *)

Pow2(n) == 2 ^ n

-----------------------------------------------------------------------------
(* Values.                                                                 *)

Modes == {"SchemaConsistent", "Compatible"}

\* FieldType tags (crate::types::FieldType).
FieldTypeSTRING == 13
FieldTypeMAP == 30

\* The fixed-size reference/nullability header: one flag byte and a 16-bit tag.
SIZE_OF_REF_AND_TYPE == 3

RefFlagNull == 253
RefFlagRef == 254
RefFlagNotNullValue == 255

\* A value: a String (its UTF-8 bytes), a HashMap<String, String> (a function
\* from key values to values), or the struct Person { name: String,
\* c4: HashMap<String, String> } (str holds name, map holds c4).
StrVal(bytes) == [ty |-> "STRING", str |-> bytes, map |-> <<>>]
MapVal(entries) == [ty |-> "MAP", str |-> <<>>, map |-> entries]
PersonVal(name, c4) == [ty |-> "STRUCT", str |-> name, map |-> c4]
NoVal == [ty |-> "none", str |-> <<>>, map |-> <<>>]

\* as i32 (string.rs:31, map.rs:29): wraps modulo 2^32; every length the model
\* can hold is below 2^31, where the cast keeps the value.
AsI32(n) ==
    IF n <= Pow2(30) + (Pow2(30) - 1) THEN n
    ELSE (((n - Pow2(30)) - Pow2(30)) - Pow2(30)) - Pow2(30)

\* as usize (string.rs:37): a negative i32 sign-extends to 2^64 + len.  That
\* value is beyond the integers TLC holds; it is kept as the largest of
\* them, which like the true value exceeds every buffer length.
AsUsize(len) == IF len >= 0 THEN len ELSE Pow2(30) + (Pow2(30) - 1)

-----------------------------------------------------------------------------
(* UTF-8 validity of a byte sequence (what String::from_utf8 accepts).     *)

IsCont(b) == b >= 128 /\ b <= 191

RECURSIVE IsValidUtf8(_)
IsValidUtf8(b) ==
    IF b = <<>> THEN TRUE
    ELSE LET b1 == b[1]
             n  == Len(b)
         IN  IF b1 < 128 THEN IsValidUtf8(Tail(b))
             ELSE IF b1 >= 194 /\ b1 <= 223
                  THEN n >= 2 /\ IsCont(b[2]) /\ IsValidUtf8(SubSeq(b, 3, n))
             ELSE IF b1 >= 224 /\ b1 <= 239
                  THEN /\ n >= 3
                       /\ IsCont(b[2]) /\ IsCont(b[3])
                       /\ (b1 = 224 => b[2] >= 160)
                       /\ (b1 = 237 => b[2] <= 159)
                       /\ IsValidUtf8(SubSeq(b, 4, n))
             ELSE IF b1 >= 240 /\ b1 <= 244
                  THEN /\ n >= 4
                       /\ IsCont(b[2]) /\ IsCont(b[3]) /\ IsCont(b[4])
                       /\ (b1 = 240 => b[2] >= 144)
                       /\ (b1 = 244 => b[2] <= 143)
                       /\ IsValidUtf8(SubSeq(b, 5, n))
             ELSE FALSE

-----------------------------------------------------------------------------
(* ByteCursor: the writer.  Every operation appends to the logical end.    *)

WriterU8(buf, b) == Append(buf, b % 256)

WriterI16(buf, v) == buf \o <<v % 256, (v \div 256) % 256>>

WriterBytes(buf, bytes) == buf \o bytes

\* reserve(n) grows the backing storage only; the logical contents stay.
WriterReserve(buf, n) == buf

\* The 7-bit groups of the 32-bit pattern of value, least significant first;
\* \div and % floor, so a negative value yields its two's-complement bits.
VarIntGroup(value, k) ==
    IF k < 4 THEN (value \div (128 ^ k)) % 128 ELSE (value \div Pow2(28)) % 16

VarIntLen(value) ==
    IF value < 0 THEN 5
    ELSE IF value < Pow2(7) THEN 1
    ELSE IF value < Pow2(14) THEN 2
    ELSE IF value < Pow2(21) THEN 3
    ELSE IF value < Pow2(28) THEN 4
    ELSE 5

VarIntBytes(value) ==
    [k \in 1..VarIntLen(value) |->
        VarIntGroup(value, k - 1) + (IF k < VarIntLen(value) THEN 128 ELSE 0)]

WriterVarInt32(buf, value) == buf \o VarIntBytes(value)

-----------------------------------------------------------------------------
(* ByteCursor: the reader.  A primitive read returns a plain value (not a  *)
(* Result): reading past the logical end, an over-long var-int or invalid  *)
(* UTF-8 is a hard error of the call, a fault that unwinds the caller.     *)

Ret(v, c) == [ok |-> TRUE, val |-> v, cur |-> c, why |-> "none"]
Fault(w, c) == [ok |-> FALSE, val |-> 0, cur |-> c, why |-> w]

RECURSIVE VarIntStep(_, _, _, _)
VarIntStep(buf, cur, k, acc) ==
    IF cur >= Len(buf) THEN Fault("BufferUnderrun", cur)
    ELSE LET b == buf[cur + 1]
             payload == b % 128
             more == b >= 128
         IN  IF k < 4
             THEN LET acc2 == acc + payload * (128 ^ k)
                  IN  IF more THEN VarIntStep(buf, cur + 1, k + 1, acc2)
                      ELSE Ret(acc2, cur + 1)
             ELSE IF more THEN Fault("VarIntOverflow", cur + 1)
             ELSE LET low == acc + (payload % 8) * Pow2(28)
                      neg == (payload \div 8) % 2 = 1
                  IN  Ret(IF neg THEN (low - Pow2(30)) - Pow2(30) ELSE low, cur + 1)

ReaderVarInt32(buf, cur) == VarIntStep(buf, cur, 0, 0)

ReaderString(buf, cur, len) ==
    IF len > Len(buf) - cur THEN Fault("BufferUnderrun", cur)
    ELSE LET bytes == SubSeq(buf, cur + 1, cur + len)
         IN  IF IsValidUtf8(bytes) THEN Ret(bytes, cur + len)
             ELSE Fault("InvalidUtf8", cur)

-----------------------------------------------------------------------------
(* Serializer results.  kind is "Ok" (val is the value), "Err" (err is the *)
(* typed error returned to the caller) or "Panic" (err is the hard error   *)
(* that unwound the call).  cur is the cursor the call leaves; calls is    *)
(* the log of the nested deserialize calls a container made.               *)

Ok(v, c, log) == [kind |-> "Ok", val |-> v, err |-> "none", cur |-> c, calls |-> log]
Err(e, c, log) == [kind |-> "Err", val |-> NoVal, err |-> e, cur |-> c, calls |-> log]
Panic(e, c, log) == [kind |-> "Panic", val |-> NoVal, err |-> e, cur |-> c, calls |-> log]

Call(what, at, r) == [what |-> what, at |-> at, kind |-> r.kind, err |-> r.err, cur |-> r.cur]

-----------------------------------------------------------------------------
(* impl Serializer for String.                                             *)

StringReservedSpace == 4

\* Mutant: the length written is the number of characters, not of bytes.
StringWrite_CharCount(buf, s) ==
    LET chars == Cardinality({i \in DOMAIN s.str : ~IsCont(s.str[i])})
        b1 == WriterVarInt32(buf, AsI32(chars))
    IN  WriterBytes(b1, s.str)

StringWrite(buf, s) ==
    LET b1 == WriterVarInt32(buf, AsI32(Len(s.str)))
    IN  WriterBytes(b1, s.str)

StringRead(buf, cur) ==
    LET len == ReaderVarInt32(buf, cur)
    IN  IF ~len.ok THEN Panic(len.why, len.cur, <<>>)
        ELSE LET s == ReaderString(buf, len.cur, AsUsize(len.val))
             IN  IF ~s.ok THEN Panic(s.why, s.cur, <<>>)
                 ELSE Ok(StrVal(s.val), s.cur, <<>>)

-----------------------------------------------------------------------------
(* Serializer::serialize / deserialize: the reference header and the wire  *)
(* tag in front of a nested value.                                         *)

WriteHeader(buf, tag) == WriterI16(WriterU8(buf, RefFlagNotNullValue), tag)

\* "Ok" with the cursor behind the header, or the typed error.
ReadHeader(buf, cur, tag) ==
    IF Len(buf) - cur < SIZE_OF_REF_AND_TYPE THEN Err("BufferUnderrun", cur, <<>>)
    ELSE LET refFlag == buf[cur + 1]
             typeId == buf[cur + 2] + 256 * buf[cur + 3]
             after == cur + SIZE_OF_REF_AND_TYPE
         IN  IF refFlag = RefFlagRef THEN Err("UnknownReference", after, <<>>)
             ELSE IF refFlag # RefFlagNotNullValue \/ typeId # tag
                  THEN Err("TypeMismatch", after, <<>>)
             ELSE Ok(NoVal, after, <<>>)

SerializeString(buf, s) == StringWrite(WriteHeader(buf, FieldTypeSTRING), s)

DeserializeString(buf, cur) ==
    LET h == ReadHeader(buf, cur, FieldTypeSTRING)
    IN  IF h.kind # "Ok" THEN h ELSE StringRead(buf, h.cur)

-----------------------------------------------------------------------------
(* impl Serializer for HashMap<String, String>.                            *)

HashMapReservedSpace == 4

\* Mutant: the range stops one iteration early.
RangeCount_OneShort(lo, hi) == IF hi > lo + 1 THEN hi - lo - 1 ELSE 0

\* for _ in 0..len: the number of iterations of the range.
RangeCount(lo, hi) == IF hi > lo THEN hi - lo ELSE 0

\* Mutant: an association already present is kept (first-write-wins).
Insert_KeepFirst(m, k, v) ==
    [x \in (DOMAIN m) \cup {k} |-> IF x \in DOMAIN m THEN m[x] ELSE v]

\* HashMap::insert: a later duplicate key replaces the earlier association.
Insert(m, k, v) == [x \in (DOMAIN m) \cup {k} |-> IF x = k THEN v ELSE m[x]]

\* The iteration orders self.iter() may use: every enumeration of the keys.
Orders(m) ==
    {o \in [1..Cardinality(DOMAIN m) -> DOMAIN m] :
        \A i, j \in DOMAIN o : i # j => o[i] # o[j]}

RECURSIVE WriteEntries(_, _, _)
\* Mutant: the value of an entry is written in front of its key.
WriteEntries_ValueFirst(buf, m, order) ==
    IF order = <<>> THEN buf
    ELSE LET k == Head(order)
             b1 == SerializeString(buf, m[k])
             b2 == SerializeString(b1, k)
         IN  WriteEntries(b2, m, Tail(order))

WriteEntries(buf, m, order) ==
    IF order = <<>> THEN buf
    ELSE LET k == Head(order)
             b1 == SerializeString(buf, k)
             b2 == SerializeString(b1, m[k])
         IN  WriteEntries(b2, m, Tail(order))

\* Mutant: every key is written with the value of the first key iterated.
HashMapWrite_FirstValue(buf, v, order) ==
    LET n == Cardinality(DOMAIN v.map)
        b1 == WriterVarInt32(buf, AsI32(n))
    IN  WriteEntries(b1, [k \in DOMAIN v.map |-> v.map[order[1]]], order)

HashMapWrite(buf, v, order) ==
    LET n == Cardinality(DOMAIN v.map)
        b1 == WriterVarInt32(buf, AsI32(n))
        reserved_space == (StringReservedSpace + SIZE_OF_REF_AND_TYPE) * n
                          + (StringReservedSpace + SIZE_OF_REF_AND_TYPE) * n
        b2 == WriterReserve(b1, reserved_space)
    IN  WriteEntries(b2, v.map, order)

RECURSIVE ReadEntries(_, _, _, _, _)
\* Mutant: a failed key does not abort; the value is still decoded.
ReadEntries_KeyNotPropagated(buf, cur, n, result, log) ==
    IF n = 0 THEN Ok(MapVal(result), cur, log)
    ELSE LET k == DeserializeString(buf, cur)
             log1 == Append(log, Call("key", cur, k))
             v == DeserializeString(buf, k.cur)
             log2 == Append(log1, Call("value", k.cur, v))
         IN  IF k.kind # "Ok" THEN [k EXCEPT !.calls = log2, !.cur = v.cur]
             ELSE IF v.kind # "Ok" THEN [v EXCEPT !.calls = log2]
             ELSE ReadEntries(buf, v.cur, n - 1, Insert(result, k.val, v.val), log2)

ReadEntries(buf, cur, n, result, log) ==
    IF n = 0 THEN Ok(MapVal(result), cur, log)
    ELSE LET k == DeserializeString(buf, cur)
             log1 == Append(log, Call("key", cur, k))
         IN  IF k.kind # "Ok" THEN [k EXCEPT !.calls = log1]
             ELSE LET v == DeserializeString(buf, k.cur)
                      log2 == Append(log1, Call("value", k.cur, v))
                  IN  IF v.kind # "Ok" THEN [v EXCEPT !.calls = log2]
                      ELSE ReadEntries(buf, v.cur, n - 1,
                                       Insert(result, k.val, v.val), log2)

HashMapRead(buf, cur) ==
    LET len == ReaderVarInt32(buf, cur)
    IN  IF ~len.ok THEN Panic(len.why, len.cur, <<>>)
        ELSE ReadEntries(buf, len.cur, RangeCount(0, len.val), <<>>, <<>>)

SerializeMap(buf, v, order) == HashMapWrite(WriteHeader(buf, FieldTypeMAP), v, order)

DeserializeMap(buf, cur) ==
    LET h == ReadHeader(buf, cur, FieldTypeMAP)
    IN  IF h.kind # "Ok" THEN h ELSE HashMapRead(buf, h.cur)

-----------------------------------------------------------------------------
(* The struct Person { name: String, c4: HashMap<String, String> } as the  *)
(* derive layer encodes it: its fields in declaration order, each through  *)
(* serialize; in Compatible mode each field is preceded by its identifier. *)

FieldIdName == 0
FieldIdC4 == 1

WriteFieldId(buf, md, id) == IF md = "Compatible" THEN WriterU8(buf, id) ELSE buf

ReadFieldId(buf, cur, md, id) ==
    IF md # "Compatible" THEN Ok(NoVal, cur, <<>>)
    ELSE IF cur >= Len(buf) THEN Err("BufferUnderrun", cur, <<>>)
    ELSE IF buf[cur + 1] # id THEN Err("TypeMismatch", cur + 1, <<>>)
    ELSE Ok(NoVal, cur + 1, <<>>)

PersonWrite(buf, p, order, md) ==
    LET b1 == SerializeString(WriteFieldId(buf, md, FieldIdName), StrVal(p.str))
    IN  SerializeMap(WriteFieldId(b1, md, FieldIdC4), MapVal(p.map), order)

PersonRead(buf, cur, md) ==
    LET i1 == ReadFieldId(buf, cur, md, FieldIdName)
    IN  IF i1.kind # "Ok" THEN i1
        ELSE LET name == DeserializeString(buf, i1.cur)
             IN  IF name.kind # "Ok" THEN name
                 ELSE LET i2 == ReadFieldId(buf, name.cur, md, FieldIdC4)
                      IN  IF i2.kind # "Ok" THEN i2
                          ELSE LET c4 == DeserializeMap(buf, i2.cur)
                               IN  IF c4.kind # "Ok" THEN [c4 EXCEPT !.val = NoVal]
                                   ELSE Ok(PersonVal(name.val.str, c4.val.map),
                                           c4.cur, c4.calls)

-----------------------------------------------------------------------------
(* Dispatch on the static type of the value.                               *)

Write(buf, v, order, md) ==
    CASE v.ty = "STRING" -> StringWrite(buf, v)
      [] v.ty = "MAP"    -> HashMapWrite(buf, v, order)
      [] v.ty = "STRUCT" -> PersonWrite(buf, v, order, md)

Read(buf, cur, ty, md) ==
    CASE ty = "STRING" -> StringRead(buf, cur)
      [] ty = "MAP"    -> HashMapRead(buf, cur)
      [] ty = "STRUCT" -> PersonRead(buf, cur, md)

-----------------------------------------------------------------------------
(* The UTF-16 -> UTF-8 transcoder (scalar path).                           *)

IsHigh(w) == w >= 55296 /\ w <= 56319      \* 0xD800..0xDBFF
IsLow(w) == w >= 56320 /\ w <= 57343       \* 0xDC00..0xDFFF
IsSurrogate(w) == IsHigh(w) \/ IsLow(w)

\* byte << 8 | byte >> 8 on a u16.
SwapEndian(w) == ((w * 256) % 65536) + (w \div 256)

\* Mutant: the units are returned as they are.
GetBytesEndianSwapped_Identity(us) == us

GetBytesEndianSwapped(us) == [i \in 1..Len(us) |-> SwapEndian(us[i])]

\* The value of a unit whose two bytes are in the order the flag names, on a
\* host whose order is hostLE.
UnitValue(w, isLE, hostLE) == IF isLE = hostLE THEN w ELSE SwapEndian(w)

ErrMissing == "Invalid UTF-16 string: missing surrogate pair"
ErrWrong == "Invalid UTF-16 string: wrong surrogate pair"

UtfOk(bytes) == [ok |-> TRUE, bytes |-> bytes, err |-> "none"]
UtfErr(e) == [ok |-> FALSE, bytes |-> <<>>, err |-> e]
NoOut == [ok |-> FALSE, bytes |-> <<>>, err |-> "not run"]

Utf8Of1(c) == <<c>>
Utf8Of2(c) == <<192 + (c \div 64), 128 + (c % 64)>>
Utf8Of3(c) == <<224 + (c \div 4096), 128 + ((c \div 64) % 64), 128 + (c % 64)>>
Utf8Of4(c) ==
    <<240 + (c \div 262144), 128 + ((c \div 4096) % 64),
      128 + ((c \div 64) % 64), 128 + (c % 64)>>

\* Mutant: the 0x10000 offset of the supplementary planes is left out.
PairCodePoint_NoOffset(w1, w2) == (w1 - 55296) * 1024 + (w2 - 56320)

PairCodePoint(w1, w2) == ((w1 - 55296) * 1024 + (w2 - 56320)) + 65536

\* Mutant: whatever follows the high surrogate, the pair is reported missing.
PairError_AlwaysMissing(wc2) == ErrMissing

\* The error for a high surrogate followed by wc2, which is no low surrogate.
PairError(wc2) == IF IsSurrogate(wc2) THEN ErrWrong ELSE ErrMissing

RECURSIVE Utf16Scan(_, _, _, _, _)
Utf16Scan(us, i, isLE, hostLE, acc) ==
    IF i > Len(us) THEN UtfOk(acc)
    ELSE LET wc == UnitValue(us[i], isLE, hostLE)
         IN  IF wc < 128 THEN Utf16Scan(us, i + 1, isLE, hostLE, acc \o Utf8Of1(wc))
             ELSE IF wc < 2048
                  THEN Utf16Scan(us, i + 1, isLE, hostLE, acc \o Utf8Of2(wc))
             ELSE IF IsHigh(wc)
                  THEN IF i = Len(us) THEN UtfErr(ErrMissing)
                       ELSE LET wc2 == UnitValue(us[i + 1], isLE, hostLE)
                            IN  IF IsLow(wc2)
                                THEN Utf16Scan(us, i + 2, isLE, hostLE,
                                               acc \o Utf8Of4(PairCodePoint(wc, wc2)))
                                ELSE UtfErr(PairError(wc2))
             ELSE IF IsLow(wc) THEN UtfErr(ErrWrong)
             ELSE Utf16Scan(us, i + 1, isLE, hostLE, acc \o Utf8Of3(wc))

Utf16ToUtf8(us, isLE, hostLE) == Utf16Scan(us, 1, isLE, hostLE, <<>>)

-----------------------------------------------------------------------------
(* The SIMD transcoders: the units are taken a batch of width lanes at a   *)
(* time.  A batch without surrogates is classified per lane (1, 2 or 3     *)
(* bytes) and written compacted; a batch holding a surrogate, and the      *)
(* remainder shorter than a batch, go through the scalar steps.            *)

\* 16-bit lanes of a 128-bit (SSE, NEON) and of a 256-bit (AVX) vector.
SseWidth == 8
AvxWidth == 16
NeonWidth == 8

NoSimd == [variant |-> "none", res |-> NoOut]

LaneBytes(wc) ==
    IF wc < 128 THEN Utf8Of1(wc) ELSE IF wc < 2048 THEN Utf8Of2(wc) ELSE Utf8Of3(wc)

\* The compacted write of the lanes i..last of a batch without surrogates.
RECURSIVE EncodeLanes(_, _, _, _, _)
EncodeLanes(us, i, last, isLE, hostLE) ==
    IF i > last THEN <<>>
    ELSE LaneBytes(UnitValue(us[i], isLE, hostLE))
         \o EncodeLanes(us, i + 1, last, isLE, hostLE)

BatchHasSurrogate(us, i, last, isLE, hostLE) ==
    \E j \in i..last : IsSurrogate(UnitValue(us[j], isLE, hostLE))

RECURSIVE ScalarBatch(_, _, _, _, _, _)

\* Mutant: a high surrogate in the last lane of a batch finds no unit after
\* it in the batch and is reported as missing its pair.
ScalarBatch_StopsAtBoundary(us, i, stop, isLE, hostLE, acc) ==
    IF i > stop THEN [res |-> UtfOk(acc), next |-> i]
    ELSE LET wc == UnitValue(us[i], isLE, hostLE)
         IN  IF IsHigh(wc)
             THEN IF i = Len(us) \/ i = stop
                  THEN [res |-> UtfErr(ErrMissing), next |-> i]
                  ELSE LET wc2 == UnitValue(us[i + 1], isLE, hostLE)
                       IN  IF IsLow(wc2)
                           THEN ScalarBatch(us, i + 2, stop, isLE, hostLE,
                                            acc \o Utf8Of4(PairCodePoint(wc, wc2)))
                           ELSE [res |-> UtfErr(PairError(wc2)), next |-> i]
             ELSE IF IsLow(wc) THEN [res |-> UtfErr(ErrWrong), next |-> i]
             ELSE ScalarBatch(us, i + 1, stop, isLE, hostLE, acc \o LaneBytes(wc))

\* The scalar steps over the units from i while i <= stop; a surrogate pair
\* that starts in the last lane takes its low surrogate from behind the
\* batch.  next is the first unit not consumed.
ScalarBatch(us, i, stop, isLE, hostLE, acc) ==
    IF i > stop THEN [res |-> UtfOk(acc), next |-> i]
    ELSE LET wc == UnitValue(us[i], isLE, hostLE)
         IN  IF IsHigh(wc)
             THEN IF i = Len(us) THEN [res |-> UtfErr(ErrMissing), next |-> i]
                  ELSE LET wc2 == UnitValue(us[i + 1], isLE, hostLE)
                       IN  IF IsLow(wc2)
                           THEN ScalarBatch(us, i + 2, stop, isLE, hostLE,
                                            acc \o Utf8Of4(PairCodePoint(wc, wc2)))
                           ELSE [res |-> UtfErr(PairError(wc2)), next |-> i]
             ELSE IF IsLow(wc) THEN [res |-> UtfErr(ErrWrong), next |-> i]
             ELSE ScalarBatch(us, i + 1, stop, isLE, hostLE, acc \o LaneBytes(wc))

RECURSIVE SimdScan(_, _, _, _, _, _)
SimdScan(us, i, width, isLE, hostLE, acc) ==
    IF i + width - 1 > Len(us)
    THEN ScalarBatch(us, i, Len(us), isLE, hostLE, acc).res
    ELSE LET last == i + width - 1
         IN  IF ~BatchHasSurrogate(us, i, last, isLE, hostLE)
             THEN SimdScan(us, i + width, width, isLE, hostLE,
                           acc \o EncodeLanes(us, i, last, isLE, hostLE))
             ELSE LET r == ScalarBatch(us, i, last, isLE, hostLE, acc)
                  IN  IF ~r.res.ok THEN r.res
                      ELSE SimdScan(us, r.next, width, isLE, hostLE, r.res.bytes)

Utf16ToUtf8Simd(us, isLE, hostLE, width) == SimdScan(us, 1, width, isLE, hostLE, <<>>)

-----------------------------------------------------------------------------
(* The inputs of the model.                                                *)

\* "", "a", "e-acute" (two bytes, one character).
Strs == {<<>>, <<97>>, <<195, 169>>}

Keys == {StrVal(<<97>>), StrVal(<<195, 169>>)}
Vals == {StrVal(<<>>), StrVal(<<97>>)}

Maps == UNION {[K -> Vals] : K \in SUBSET Keys}
PersonMaps == {m \in Maps : \A k \in DOMAIN m : m[k] = StrVal(<<97>>)}

\* Payloads a foreign writer sends: valid UTF-8, and byte strings that are not
\* (a lone 0xFF, a lead byte without its continuation, a lone continuation).
ForeignPayloads == {<<>>, <<97>>, <<195, 169>>, <<255>>, <<195>>, <<97, 128>>}

\* Bytes a corrupted buffer may hold in place of the original one.
CorruptBytes == {0, 1, 128, 255, FieldTypeMAP, RefFlagRef}

PairSeqs == UNION {[1..n -> Keys \X Vals] : n \in 0..MaxPairs}

NoStream == [ty |-> "none", count |-> 0, payload |-> <<>>, pairs |-> <<>>]

RECURSIVE WritePairs(_, _)
WritePairs(buf, pairs) ==
    IF pairs = <<>> THEN buf
    ELSE WritePairs(SerializeString(SerializeString(buf, Head(pairs)[1]),
                                    Head(pairs)[2]),
                    Tail(pairs))

-----------------------------------------------------------------------------
(* The state machine: values are written into one buffer, the buffer       *)
(* reaches a reader (as written, truncated, corrupted, or sent by a        *)
(* foreign writer), and the reader decodes values from its cursor.         *)

Init ==
    /\ mode \in Modes
    /\ bf = <<>>
    /\ cursor = 0
    /\ pc = "writing"
    /\ written = <<>>
    /\ origin = "local"
    /\ stream = NoStream
    /\ results = <<>>
    /\ native = TRUE
    /\ units = <<>>
    /\ flag = TRUE
    /\ out = NoOut
    /\ outSwapped = NoOut
    /\ outSimd = NoSimd

UtfUnchanged == UNCHANGED <<native, units, flag, out, outSwapped, outSimd>>

DoWrite(v, order) ==
    /\ pc = "writing"
    /\ Len(written) < MaxVals
    /\ bf' = Write(bf, v, order, mode)
    /\ written' = Append(written, [v |-> v, order |-> order])
    /\ UNCHANGED <<mode, cursor, pc, origin, stream, results>>
    /\ UtfUnchanged

WriteString == \E s \in Strs : DoWrite(StrVal(s), <<>>)

WriteMap == \E m \in Maps : \E o \in Orders(m) : DoWrite(MapVal(m), o)

WriteStruct ==
    \E n \in {<<195, 169>>} : \E m \in PersonMaps : \E o \in Orders(m) :
        DoWrite(PersonVal(n, m), o)

\* The ReadContext is created over the bytes as written.
NewReadContext ==
    /\ pc = "writing"
    /\ written # <<>>
    /\ pc' = "reading"
    /\ UNCHANGED <<mode, bf, cursor, written, origin, stream, results>>
    /\ UtfUnchanged

\* The ReadContext is created over a proper prefix of the bytes written.
Truncate ==
    /\ pc = "writing"
    /\ Len(written) = 1
    /\ \E n \in 0..(Len(bf) - 1) : bf' = SubSeq(bf, 1, n)
    /\ origin' = "truncated"
    /\ pc' = "reading"
    /\ UNCHANGED <<mode, cursor, written, stream, results>>
    /\ UtfUnchanged

\* The ReadContext is created over the bytes written with one byte changed.
Corrupt ==
    /\ pc = "writing"
    /\ Len(written) = 1
    /\ \E i \in 1..Len(bf) : \E b \in CorruptBytes \ {bf[i]} :
          bf' = [bf EXCEPT ![i] = b]
    /\ origin' = "corrupted"
    /\ pc' = "reading"
    /\ UNCHANGED <<mode, cursor, written, stream, results>>
    /\ UtfUnchanged

\* A foreign writer sends a string: a declared length, then payload bytes.
ForeignString ==
    /\ pc = "writing"
    /\ written = <<>>
    /\ \E len \in -1..MaxCount : \E payload \in ForeignPayloads :
          /\ bf' = WriterBytes(WriterVarInt32(<<>>, len), payload)
          /\ stream' = [ty |-> "STRING", count |-> len, payload |-> payload,
                        pairs |-> <<>>]
    /\ origin' = "foreign"
    /\ pc' = "reading"
    /\ UNCHANGED <<mode, cursor, written, results>>
    /\ UtfUnchanged

\* A foreign writer sends a map: a declared count, then (key, value) pairs,
\* which may repeat a key.
ForeignMap ==
    /\ pc = "writing"
    /\ written = <<>>
    /\ \E count \in -1..MaxCount : \E pairs \in PairSeqs :
          /\ bf' = WritePairs(WriterVarInt32(<<>>, count), pairs)
          /\ stream' = [ty |-> "MAP", count |-> count, payload |-> <<>>,
                        pairs |-> pairs]
    /\ origin' = "foreign"
    /\ pc' = "reading"
    /\ UNCHANGED <<mode, cursor, written, results>>
    /\ UtfUnchanged

\* The static types the reader may ask for next: those written, in order,
\* for a buffer as written; any, once, for a buffer of another origin.
MayRead(ty) ==
    /\ pc = "reading"
    /\ IF origin = "local"
       THEN Len(results) < Len(written) /\ written[Len(results) + 1].v.ty = ty
       ELSE results = <<>>

DoRead(ty) ==
    /\ MayRead(ty)
    /\ LET r == Read(bf, cursor, ty, mode)
       IN  /\ results' = Append(results, [ty |-> ty, at |-> cursor, r |-> r])
           /\ cursor' = r.cur
           /\ pc' = IF r.kind = "Ok" THEN "reading" ELSE "failed"
    /\ UNCHANGED <<mode, bf, written, origin, stream>>
    /\ UtfUnchanged

ReadString == DoRead("STRING")

ReadMap == DoRead("MAP")

ReadStruct == DoRead("STRUCT")

Next ==
    \/ WriteString
    \/ WriteMap
    \/ WriteStruct
    \/ NewReadContext
    \/ Truncate
    \/ Corrupt
    \/ ForeignMap
    \/ ForeignString
    \/ ReadString
    \/ ReadMap
    \/ ReadStruct

Spec == Init /\ [][Next]_vars

-----------------------------------------------------------------------------
(* The transcoder's state machine: one input, transcoded as given and as   *)
(* the byte-swapped units with the opposite flag.                          *)

\* 'a', two 2-byte characters whose swapped forms are surrogates (0x00D8,
\* 0x00DC), the euro sign, two high surrogates (0xD800, 0xDA00), a low
\* surrogate (0xDC00), and 0x6100 (a swapped 'a').
UnitAlphabet == {97, 216, 220, 8364, 55296, 55808, 56320, 24832}

UnitSeqs == UNION {[1..n -> UnitAlphabet] : n \in 0..MaxUnits}

InitUtf ==
    /\ mode = "SchemaConsistent"
    /\ bf = <<>>
    /\ cursor = 0
    /\ pc = "transcoding"
    /\ written = <<>>
    /\ origin = "local"
    /\ stream = NoStream
    /\ results = <<>>
    /\ native \in BOOLEAN
    /\ units \in UnitSeqs
    /\ flag \in BOOLEAN
    /\ out = NoOut
    /\ outSwapped = NoOut
    /\ outSimd = NoSimd

SerUnchanged == UNCHANGED <<mode, bf, cursor, pc, written, origin, stream, results>>

\* utf16_to_utf8(&units, flag)
Transcode ==
    /\ pc = "transcoding"
    /\ out = NoOut
    /\ out' = Utf16ToUtf8(units, flag, native)
    /\ UNCHANGED <<native, units, flag, outSwapped, outSimd>>
    /\ SerUnchanged

\* utf16_to_utf8(&get_bytes_endian_swapped(units), !flag)
TranscodeSwapped ==
    /\ pc = "transcoding"
    /\ outSwapped = NoOut
    /\ outSwapped' = Utf16ToUtf8(GetBytesEndianSwapped(units), ~flag, native)
    /\ UNCHANGED <<native, units, flag, out, outSimd>>
    /\ SerUnchanged

NextUtf ==
    \/ Transcode
    \/ TranscodeSwapped

SpecUtf == InitUtf /\ [][NextUtf]_vars

-----------------------------------------------------------------------------
(* The SIMD transcoders' state machine: one input, transcoded by the       *)
(* scalar path and by one SIMD variant.  The input is a run of 'a', a few  *)
(* units of any kind, and a second run of 'a'; the runs place the middle   *)
(* units in front of, across and behind a batch boundary.                  *)

SimdAlphabet == {97, 216, 220, 8364, 55296, 56320}

SimdMids == UNION {[1..n -> SimdAlphabet] : n \in 0..MaxMid}

Widths == {SseWidth, AvxWidth, NeonWidth}

\* Lengths of the first run: up to MaxMid units short of a batch boundary.
PadLens == {w - k : w \in Widths \cup {0}, k \in 0..MaxMid} \cap (0..AvxWidth)

Run(n) == [i \in 1..n |-> 97]

SimdInputs ==
    {Run(p) \o mid \o Run(q) : p \in PadLens, mid \in SimdMids, q \in Widths \cup {0}}

InitSimd ==
    /\ mode = "SchemaConsistent"
    /\ bf = <<>>
    /\ cursor = 0
    /\ pc = "transcoding"
    /\ written = <<>>
    /\ origin = "local"
    /\ stream = NoStream
    /\ results = <<>>
    /\ native \in BOOLEAN
    /\ units \in SimdInputs
    /\ flag \in BOOLEAN
    /\ out = NoOut
    /\ outSwapped = NoOut
    /\ outSimd = NoSimd

DoSimd(variant, width) ==
    /\ pc = "transcoding"
    /\ outSimd = NoSimd
    /\ outSimd' = [variant |-> variant,
                   res |-> Utf16ToUtf8Simd(units, flag, native, width)]
    /\ UNCHANGED <<native, units, flag, out, outSwapped>>
    /\ SerUnchanged

\* utf16_to_utf8_simd::sse::utf16_to_utf8
TranscodeSse == DoSimd("sse", SseWidth)

\* utf16_to_utf8_simd::avx::utf16_to_utf8
TranscodeAvx == DoSimd("avx", AvxWidth)

\* utf16_to_utf8_simd::neon::utf16_to_utf8
TranscodeNeon == DoSimd("neon", NeonWidth)

NextSimd ==
    \/ Transcode
    \/ TranscodeSse
    \/ TranscodeAvx
    \/ TranscodeNeon

SpecSimd == InitSimd /\ [][NextSimd]_vars

-----------------------------------------------------------------------------
(* Properties of the serializers (under Spec).                             *)

\* The first read of the run, once it has happened.
FirstRead == results[1]

\* C1: a value written into a fresh WriteContext and read back with a
\* ReadContext of the same Mode and the same static type is returned as
\* Ok(v') with v' = v, for Strings, HashMaps and structs, in either Mode.
C1_RoundTrip ==
    (origin = "local" /\ results # <<>> /\ FirstRead.ty = written[1].v.ty)
        => /\ FirstRead.at = 0
           /\ FirstRead.r.kind = "Ok"
           /\ FirstRead.r.val = written[1].v

C1_Witness ==
    /\ origin = "local"
    /\ mode = "Compatible"
    /\ results # <<>>
    /\ written[1].v.ty = "STRUCT"
    /\ written[1].v.str = <<195, 169>>
    /\ Cardinality(DOMAIN written[1].v.map) = 2
    /\ FirstRead.r.kind = "Ok"
    /\ FirstRead.r.val = written[1].v

\* C2 (as claimed): decoding a String or a HashMap from a buffer that ends
\* before the value is fully consumed returns the error BufferUnderrun.
C2_TruncatedReturnsBufferUnderrun ==
    (/\ origin = "truncated"
     /\ results # <<>>
     /\ FirstRead.ty = written[1].v.ty
     /\ FirstRead.ty \in {"STRING", "MAP"})
        => /\ FirstRead.r.kind = "Err"
           /\ FirstRead.r.err = "BufferUnderrun"

\* C3 (as claimed): String::read returns the error InvalidUtf8 whenever the
\* len payload bytes after the length prefix are not valid UTF-8.
C3_InvalidUtf8ReturnsErr ==
    (/\ origin = "foreign"
     /\ stream.ty = "STRING"
     /\ stream.count >= 0
     /\ stream.count <= Len(stream.payload)
     /\ ~IsValidUtf8(SubSeq(stream.payload, 1, stream.count))
     /\ results # <<>>
     /\ FirstRead.ty = "STRING")
        => /\ FirstRead.r.kind = "Err"
           /\ FirstRead.r.err = "InvalidUtf8"

\* C4 (as claimed): a length prefix or entry count that decodes to a negative
\* 32-bit value makes String::read and HashMap::read return an error, never
\* Ok with a value and never a panic.
C4_NegativePrefixReturnsErr ==
    (/\ origin = "foreign"
     /\ stream.count < 0
     /\ results # <<>>
     /\ FirstRead.ty = stream.ty)
        => FirstRead.r.kind = "Err"

\* C5: HashMap::read decodes the entries in stream order, each key before its
\* value; the first key or value decode that fails is the last one made, read
\* returns exactly its error with the cursor where that decode left it, and
\* returns no map.
C5_FirstErrorAborts ==
    \A i \in DOMAIN results :
        results[i].ty = "MAP" =>
            LET r == results[i].r
                log == r.calls
                n == Len(log)
                counted == ReaderVarInt32(bf, results[i].at)
            IN  /\ \A j \in 1..n :
                      /\ log[j].what = (IF j % 2 = 1 THEN "key" ELSE "value")
                      /\ log[j].at = (IF j = 1 THEN counted.cur ELSE log[j - 1].cur)
                      /\ log[j].kind = DeserializeString(bf, log[j].at).kind
                      /\ log[j].cur = DeserializeString(bf, log[j].at).cur
                      /\ j < n => log[j].kind = "Ok"
                /\ (n > 0 /\ log[n].kind = "Err")
                      => /\ r.kind = "Err"
                         /\ r.err = log[n].err
                         /\ r.err = DeserializeString(bf, log[n].at).err
                         /\ r.cur = log[n].cur
                         /\ r.val = NoVal
                /\ r.kind = "Err" => (n > 0 /\ log[n].kind = "Err")

\* An entry was decoded, then the key of the second entry failed.
C5_Witness ==
    /\ results # <<>>
    /\ FirstRead.ty = "MAP"
    /\ Len(FirstRead.r.calls) = 3
    /\ FirstRead.r.kind = "Err"
    /\ FirstRead.r.err = "TypeMismatch"
    /\ FirstRead.r.cur < Len(bf)

\* C6: two mappings with the same key-to-value associations, written in
\* whatever iteration order, read back equal as mappings, even when the
\* encoded bytes differ.
C6_OrderIndependent ==
    \A i, j \in DOMAIN results :
        (/\ origin = "local"
         /\ written[i].v.ty = "MAP"
         /\ written[j].v.ty = "MAP"
         /\ written[i].v.map = written[j].v.map)
            => /\ results[i].r.kind = "Ok"
               /\ results[j].r.kind = "Ok"
               /\ results[i].r.val.map = results[j].r.val.map

\* The same two-entry mapping written in two orders: the bytes differ.
C6_Witness ==
    /\ origin = "local"
    /\ Len(results) = 2
    /\ written[1].v.ty = "MAP"
    /\ written[1].v = written[2].v
    /\ written[1].order # written[2].order
    /\ SubSeq(bf, 1, results[1].r.cur)
         # SubSeq(bf, results[1].r.cur + 1, results[2].r.cur)
    /\ results[1].r.val.map = results[2].r.val.map

\* The index of the last pair among the first n whose key is k.
LastIndex(pairs, n, k) ==
    CHOOSE i \in 1..n : pairs[i][1] = k /\ \A j \in (i + 1)..n : pairs[j][1] # k

\* C7: HashMap::read of a stream holding count well-formed pairs decodes all
\* count pairs and returns the mapping that gives every key the value of its
\* last occurrence; it has as many entries as there are distinct keys, at
\* most count.
C7_LastWriteWins ==
    (/\ origin = "foreign"
     /\ stream.ty = "MAP"
     /\ stream.count >= 0
     /\ stream.count <= Len(stream.pairs)
     /\ results # <<>>
     /\ FirstRead.ty = "MAP")
        => LET n == stream.count
               keys == {stream.pairs[i][1] : i \in 1..n}
               r == FirstRead.r
           IN  /\ r.kind = "Ok"
               /\ Len(r.calls) = 2 * n
               /\ DOMAIN r.val.map = keys
               /\ \A k \in keys :
                     r.val.map[k] = stream.pairs[LastIndex(stream.pairs, n, k)][2]
               /\ Cardinality(DOMAIN r.val.map) = Cardinality(keys)
               /\ Cardinality(DOMAIN r.val.map) <= n

\* The same key twice with different values: the later value is kept.
C7_Witness ==
    /\ origin = "foreign"
    /\ stream.ty = "MAP"
    /\ stream.count = 2
    /\ Len(stream.pairs) = 2
    /\ stream.pairs[1][1] = stream.pairs[2][1]
    /\ stream.pairs[1][2] # stream.pairs[2][2]
    /\ results # <<>>
    /\ FirstRead.ty = "MAP"
    /\ FirstRead.r.kind = "Ok"
    /\ Cardinality(DOMAIN FirstRead.r.val.map) = 1
    /\ FirstRead.r.val.map[stream.pairs[2][1]] = stream.pairs[2][2]

\* The encodings of the entries of m in the order iterated: each key, then
\* its own value.
RECURSIVE EntriesLayout(_, _)
EntriesLayout(m, order) ==
    IF order = <<>> THEN <<>>
    ELSE SerializeString(<<>>, Head(order))
         \o SerializeString(<<>>, m[Head(order)])
         \o EntriesLayout(m, Tail(order))

\* The bytes the claimed layout gives one written value: for a String its
\* number of bytes as a one-byte var-int, then the bytes; for a HashMap its
\* number of entries as a one-byte var-int, then the entries.
ValueLayout(w) ==
    CASE w.v.ty = "STRING" -> <<Len(w.v.str)>> \o w.v.str
      [] w.v.ty = "MAP"    -> <<Cardinality(DOMAIN w.v.map)>>
                              \o EntriesLayout(w.v.map, w.order)
      [] w.v.ty = "STRUCT" -> Write(<<>>, w.v, w.order, mode)

RECURSIVE BufferLayout(_)
BufferLayout(ws) ==
    IF ws = <<>> THEN <<>> ELSE ValueLayout(Head(ws)) \o BufferLayout(Tail(ws))

\* C12: String::write appends the var-int of the number of UTF-8 bytes of the
\* string (not of its characters) and then exactly those bytes; HashMap::write
\* appends the var-int of the number of entries and then exactly that many
\* encodings, each key immediately followed by its own value.  The buffer is
\* the concatenation of these layouts, in the order of the writes.
C12_WriteLayout ==
    (origin = "local") => bf = BufferLayout(written)

\* "e-acute" (one character, two bytes), then the map {e-acute: "a", a: ""}
\* iterated in that order.
C12_Witness ==
    /\ origin = "local"
    /\ Len(written) = 2
    /\ written[1].v = StrVal(<<195, 169>>)
    /\ written[2].v.ty = "MAP"
    /\ written[2].order = <<StrVal(<<195, 169>>), StrVal(<<97>>)>>
    /\ bf = <<2, 195, 169,
              2, 255, 13, 0, 2, 195, 169, 255, 13, 0, 1, 97,
                 255, 13, 0, 1, 97, 255, 13, 0, 0>>

\* The number of bytes the i-th write appended to the buffer.
WrittenSize(i) == Len(Write(<<>>, written[i].v, written[i].order, mode))

\* C13: over a buffer holding v1..vn as written, the reads of the same types
\* in the same order each start where the one before stopped, return Ok with
\* the value written at that position, and advance the cursor by exactly the
\* number of bytes the matching write appended, leaving the bytes behind it
\* unconsumed; after the n-th read the cursor is at the end of the buffer.
C13_ReadsFollowWrites ==
    (origin = "local") =>
        /\ \A i \in DOMAIN results :
              /\ results[i].at = (IF i = 1 THEN 0 ELSE results[i - 1].r.cur)
              /\ results[i].r.kind = "Ok"
              /\ results[i].r.val = written[i].v
              /\ results[i].r.cur - results[i].at = WrittenSize(i)
              /\ results[i].r.cur <= Len(bf)
        /\ (results # <<>>) => cursor = results[Len(results)].r.cur
        /\ (results # <<>> /\ Len(results) = Len(written)) => cursor = Len(bf)

\* A map of two entries and then a string, both read back; the first read
\* stops in front of the bytes of the string.
C13_Witness ==
    /\ origin = "local"
    /\ Len(written) = 2
    /\ Len(results) = 2
    /\ written[1].v.ty = "MAP"
    /\ Cardinality(DOMAIN written[1].v.map) = 2
    /\ written[2].v = StrVal(<<195, 169>>)
    /\ results[1].r.cur = Len(bf) - 3
    /\ results[2].at = results[1].r.cur
    /\ results[2].r.val = written[2].v
    /\ cursor = Len(bf)

-----------------------------------------------------------------------------
(* Properties of the transcoder (under SpecUtf).                           *)

\* The units as the transcoder interprets them.
Interpreted == [i \in 1..Len(units) |-> UnitValue(units[i], flag, native)]

\* Scalar units and well-formed surrogate pairs only.
RECURSIVE WellFormed(_)
WellFormed(ws) ==
    IF ws = <<>> THEN TRUE
    ELSE IF IsHigh(ws[1])
         THEN Len(ws) >= 2 /\ IsLow(ws[2]) /\ WellFormed(SubSeq(ws, 3, Len(ws)))
    ELSE ~IsLow(ws[1]) /\ WellFormed(Tail(ws))

\* C8: the transcoder returns UTF-8 bytes, MissingSurrogatePair or
\* WrongSurrogatePair and nothing else.  After a well-formed prefix, a high
\* surrogate that is the last unit gives MissingSurrogatePair, a high
\* surrogate followed by a surrogate-range unit that is not a low surrogate
\* gives WrongSurrogatePair, and a low surrogate gives WrongSurrogatePair.
C8_SurrogateErrors ==
    out # NoOut =>
        LET ws == Interpreted
            n == Len(ws)
        IN  /\ \/ out.ok /\ out.err = "none"
               \/ out = UtfErr(ErrMissing)
               \/ out = UtfErr(ErrWrong)
            /\ \A i \in 1..n :
                  WellFormed(SubSeq(ws, 1, i - 1)) =>
                      /\ (IsHigh(ws[i]) /\ i = n) => out = UtfErr(ErrMissing)
                      /\ (IsHigh(ws[i]) /\ i < n /\ IsSurrogate(ws[i + 1])
                            /\ ~IsLow(ws[i + 1])) => out = UtfErr(ErrWrong)
                      /\ IsLow(ws[i]) => out = UtfErr(ErrWrong)

\* [0xD800, 0xDA00] in native order.
C8_Witness ==
    /\ units = <<55296, 55808>>
    /\ flag = native
    /\ out = UtfErr(ErrWrong)

\* The code points of a well-formed unit sequence.
RECURSIVE CodePoints(_)
CodePoints(ws) ==
    IF ws = <<>> THEN <<>>
    ELSE IF IsHigh(ws[1])
         THEN <<65536 + (ws[1] - 55296) * 1024 + (ws[2] - 56320)>>
              \o CodePoints(SubSeq(ws, 3, Len(ws)))
    ELSE <<ws[1]>> \o CodePoints(Tail(ws))

\* The code points a valid UTF-8 byte sequence decodes to.
RECURSIVE Utf8Decode(_)
Utf8Decode(b) ==
    IF b = <<>> THEN <<>>
    ELSE LET n == Len(b)
         IN  IF b[1] < 128 THEN <<b[1]>> \o Utf8Decode(Tail(b))
             ELSE IF b[1] < 224
                  THEN <<(b[1] - 192) * 64 + (b[2] - 128)>>
                       \o Utf8Decode(SubSeq(b, 3, n))
             ELSE IF b[1] < 240
                  THEN <<(b[1] - 224) * 4096 + (b[2] - 128) * 64 + (b[3] - 128)>>
                       \o Utf8Decode(SubSeq(b, 4, n))
             ELSE <<(b[1] - 240) * 262144 + (b[2] - 128) * 4096
                      + (b[3] - 128) * 64 + (b[4] - 128)>>
                  \o Utf8Decode(SubSeq(b, 5, n))

\* The UTF-8 length the claim gives a well-formed unit sequence.
RECURSIVE ByteCount(_)
ByteCount(ws) ==
    IF ws = <<>> THEN 0
    ELSE IF IsHigh(ws[1]) THEN 4 + ByteCount(SubSeq(ws, 3, Len(ws)))
    ELSE (IF ws[1] < 128 THEN 1 ELSE IF ws[1] < 2048 THEN 2 ELSE 3)
         + ByteCount(Tail(ws))

\* C9: a well-formed unit sequence is transcoded to valid UTF-8 that decodes
\* to the same code points; a unit below 0x80 gives 1 byte, below 0x800 2,
\* any other non-surrogate unit 3, and a surrogate pair 4 for its two units.
C9_WellFormedTranscodes ==
    (out # NoOut /\ WellFormed(Interpreted)) =>
        /\ out.ok
        /\ IsValidUtf8(out.bytes)
        /\ Utf8Decode(out.bytes) = CodePoints(Interpreted)
        /\ Len(out.bytes) = ByteCount(Interpreted)

\* The euro sign, then the pair 0xD800 0xDC00 (U+10000): 3 + 4 bytes.
C9_Witness ==
    /\ units = <<8364, 55296, 56320>>
    /\ flag = native
    /\ out.ok
    /\ out.bytes = <<226, 130, 172, 240, 144, 128, 128>>

\* C10: transcoding u with the flag set to the native order, and transcoding
\* the byte-swapped units with the opposite flag, give the same result: the
\* same bytes or the same error.
C10_EndianSymmetric ==
    (flag = native /\ out # NoOut /\ outSwapped # NoOut) => out = outSwapped

\* 'a' and the euro sign, both ways.
C10_Witness ==
    /\ flag = native
    /\ units = <<97, 8364>>
    /\ out = UtfOk(<<97, 226, 130, 172>>)
    /\ outSwapped = out

-----------------------------------------------------------------------------
(* Properties of the SIMD transcoders (under SpecSimd).                    *)

\* C11: for every input and endianness flag, each SIMD variant (128-bit,
\* 256-bit, ARM) returns exactly what the scalar transcoder returns: the same
\* bytes on accepted input, the same error on malformed input, whatever the
\* length is relative to the batch width and wherever surrogate pairs fall
\* relative to batch boundaries.
C11_SimdEqualsScalar ==
    (out # NoOut /\ outSimd # NoSimd) => outSimd.res = out

\* A surrogate pair across the first boundary of the 128-bit batches, with a
\* full batch of units behind it.
C11_Witness ==
    /\ outSimd.variant = "sse"
    /\ Len(units) >= 2 * SseWidth
    /\ IsHigh(UnitValue(units[SseWidth], flag, native))
    /\ IsLow(UnitValue(units[SseWidth + 1], flag, native))
    /\ out.ok
    /\ outSimd.res = out

====
